---- MODULE Spec2Model ----
(***************************************************************************)
(* A model of GPUGramSchmidt (vulkan-gram-schmidt.cpp / .comp):            *)
(*   - the constructor and destructor, with the process-wide constructor   *)
(*     mutex and the static occupancy map vk_busy_queues;                  *)
(*   - GPUGramSchmidt::run, the per-pivot record/submit/wait loop, for     *)
(*     one call and for several calls on one object;                       *)
(*   - the scan of the device's memory types in step 2 of run;             *)
(*   - one launch of the compute shader, with its work groups and barrier; *)
(*   - the copies between the host container and the mapped buffer;        *)
(*   - the loops of benchmark/main.cpp.                                    *)
(***************************************************************************)
EXTENDS Integers, Sequences, FiniteSets, TLC

\* ------------------------------------------------------------------ bounds

\* Number of GPUGramSchmidt objects whose construction is attempted.
NumSolvers == 3

\* Largest queueCount a queue family of the modelled platforms reports.
MaxQueueCount == 2

\* Largest matrix.size() of a modelled run and of a modelled kernel launch.
MaxDim == 33

\* Largest number of rows, and largest length of a row, of the containers
\* whose upload and download are modelled.
MaxHostDim == 2

\* Largest number of calls of run on one object, and largest matrix.size() of
\* the calls, where several calls are modelled.
MaxRuns == 3
MaxReuseDim == 2

\* Largest memoryTypeCount, and the number of memory heaps, of the devices
\* whose memory types step 2 of run scans.
MaxMemoryTypes == 2
NumMemoryHeaps == 2

\* ------------------------------------------------------- program constants

\* A uint32_t value v is held as the integer congruent to it modulo 2^32 that
\* lies in -2^31 .. 2^31 - 1: v itself below 2^31, v - 2^32 from 2^31 on. Sums
\* and differences of such integers are then uint32_t sums and differences
\* (the values of this model stay far from +-2^31), and 0U - 1 is -1.
\* Comparisons are made on the unsigned values, by U32Less.
U32Less(a, b) == IF (a < 0) = (b < 0) THEN a < b ELSE b < 0

\* 0U - 1, the "nothing selected" value of vk_selected_gpu_i.
NoIndex == 0 - 1

VK_QUEUE_GRAPHICS_BIT == 1
VK_QUEUE_COMPUTE_BIT == 2

VK_MEMORY_PROPERTY_HOST_VISIBLE_BIT == 2
VK_MEMORY_PROPERTY_HOST_COHERENT_BIT == 4

VK_SUCCESS == 0
VK_TIMEOUT == 2
VK_ERROR_DEVICE_LOST == -4
VK_ERROR_INITIALIZATION_FAILED == -3

\* local_size_x of the compute shader, and the divisor of vkCmdDispatch's
\* group count in run.
local_size_x == 32
DispatchDivisor == 32

\* The VkResult value a failing platform call is modelled to return.
FailureCodes == {VK_ERROR_INITIALIZATION_FAILED}

\* --------------------------------------------------------------- helpers

\* Bitwise AND of two naturals (the C++ operator &).
RECURSIVE BitAnd(_, _)
BitAnd(a, b) ==
    IF a = 0 \/ b = 0 THEN 0
    ELSE (IF a % 2 = 1 /\ b % 2 = 1 THEN 1 ELSE 0) + 2 * BitAnd(a \div 2, b \div 2)

\* A C++ bool converted to an integer operand.
BoolToInt(b) == IF b THEN 1 ELSE 0

Solvers == 1..NumSolvers
\* queueFlags values of the modelled families: graphics only, compute only,
\* graphics and compute.
QueueFlagValues ==
    {VK_QUEUE_GRAPHICS_BIT, VK_QUEUE_COMPUTE_BIT, VK_QUEUE_GRAPHICS_BIT + VK_QUEUE_COMPUTE_BIT}

FamilyProps == [queueFlags : QueueFlagValues, queueCount : 1..MaxQueueCount]

\* A platform's shape gives the number of queue families of each physical
\* device, the devices being numbered from 0 as vk_gpus is indexed.
OneDevice == (0 :> 1)
TwoDevices == (0 :> 2 @@ 1 :> 1)

FamilyIds(shape, g) == 0..(shape[g] - 1)

\* The platforms of a shape. The constructor skips a device without
\* shaderFloat64 before it reads the device's queue families, so these are
\* the same on every such device.
PlatformsOf(shape) ==
    {p \in [DOMAIN shape -> [shaderFloat64 : BOOLEAN,
                             families : UNION {[FamilyIds(shape, g) -> FamilyProps] :
                                               g \in DOMAIN shape}]] :
        \A g \in DOMAIN shape :
            /\ DOMAIN p[g].families = FamilyIds(shape, g)
            /\ ~p[g].shaderFloat64 =>
                   \A f \in FamilyIds(shape, g) :
                       p[g].families[f] =
                           [queueFlags |-> VK_QUEUE_GRAPHICS_BIT + VK_QUEUE_COMPUTE_BIT,
                            queueCount |-> 1]}

\* The keys of vk_busy_queues on a platform.
Pairs(gs) == UNION {{<<g, f>> : f \in DOMAIN gs[g].families} : g \in DOMAIN gs}

VARIABLES
    gpus,                         \* what the platform reports: vk_gpus, features, queue families
    vk_busy_queues,               \* static std::map<(gpu, family), uint32_t>
    constructor,                  \* static std::mutex: 0 when free, else the solver whose thread locked it
    pc,                           \* per solver: where its constructor / destructor stands
    vk_selected_gpu_i,            \* per solver
    vk_selected_queue_family_i,   \* per solver
    vk_selected_queues_count,     \* per solver
    rmw,                          \* per solver: the value loaded by a += / -= on the map in progress
    vk_result,                    \* per solver: VK_VALIDATE's local, the status of the call that failed
    thrown,                       \* per solver: the exception in flight, or the one that reached the caller
    acquired,                     \* per solver, history: the handles and the claim it acquired, in order
    released,                     \* per solver, history: what its destructor released, in order
    \* GPUGramSchmidt::run on one object
    run_pc,                       \* where run stands
    matrix_size,                  \* matrix.size()
    start_vec_i,                  \* the loop variable of step 6
    push_constants,               \* the array of three uint32_t
    vk_command_buffer,            \* what is recorded: <<>>, or one dispatch with its constants and group count
    vk_fence,                     \* "unsignaled" or "signaled"
    in_flight,                    \* the submission the device has not finished, or <<>>
    vk_matrix_buffer,             \* "none", "created" or "destroyed"
    vk_matrix_memory,             \* "none", "allocated" or "freed"
    submitted,                    \* history: the dispatches submitted by this run, in order
    timed_out_at,                 \* history: the pivot index whose fence wait timed out, or NoIndex
    run_thrown,                   \* the exception that left run
    run_calls,                    \* a record of what the calls of run on the object have left, see below
    \* one launch of the compute shader
    metadata,                     \* the push constants <<dim, vector_count, start_vec_i>>
    num_work_groups,              \* the group count of the dispatch
    pivot_pc,                     \* where invocation 0 stands: "off", "norm", "divide", "barrier"
    normalised,                   \* how many coordinates of the pivot vector are divided by the norm
    arrived,                      \* per work group: the invocations other than 0 that reached barrier()
    projected,                    \* per work group: the invocations that ran the subtraction
    touched,                      \* history: <<lowest, highest>> index of matrix.data read or written, or <<>>
    unnormalised_read,            \* history: a projection read the pivot vector before all of it was divided
    \* the copies between the host container and the mapped buffer in run
    transfer_pc,                  \* "off", "called", "uploaded", "downloaded", "raised" or "crashed"
    matrix,                       \* the container: row index -> (column index -> value), from 0
    vectors_as_columns,           \* the second argument of run
    payload,                      \* the mapped buffer: offset -> value, <<>> before the upload
    original,                     \* history: the container as it was passed to run
    device_wrote,                 \* history: the device has changed the buffer since the upload
    host_out_of_bounds,           \* history: a row was indexed at or beyond its length
    \* benchmarking() of benchmark/main.cpp
    bench_pc,                     \* "off", "orders", "repeat", "done" or "raised"
    order_i,                      \* uint8_t index into orders
    matrix_i,                     \* uint8_t count of the matrices of this order
    repeat_i,                     \* uint8_t count of the runs on this matrix
    bench_n,                      \* the parameter n of average_time_for_one_random_matrix
    bench_matrix,                 \* <<number of rows, length of every row>> of the generated matrix
    \* step 2 of run, the scan of the memory types
    memory_scan                   \* a record of the locals of step 2, see below

lifecycleVars ==
    <<gpus, vk_busy_queues, constructor, pc, vk_selected_gpu_i,
      vk_selected_queue_family_i, vk_selected_queues_count, rmw, vk_result, thrown,
      acquired, released>>

runVars ==
    <<run_pc, matrix_size, start_vec_i, push_constants, vk_command_buffer, vk_fence,
      in_flight, vk_matrix_buffer, vk_matrix_memory, submitted, timed_out_at, run_thrown,
      run_calls>>

\* The fields of run_calls.
\* The number of calls of run on the object so far, this one included.
run_no == run_calls.run_no
\* History: an earlier call of run on the object ended with an exception.
some_run_raised == run_calls.some_run_raised
\* The call whose vk_matrix_buffer binding 0 of vk_descriptor_set_0 names, or 0.
descriptor_binding_0 == run_calls.descriptor_binding_0
\* The calls whose vk_matrix_buffer vkDestroyBuffer has destroyed.
destroyed_buffers == run_calls.destroyed_buffers
\* History: step 4 of this call has copied the matrix into the buffer.
upload_done == run_calls.upload_done
\* History: step 4 of this call wrote through payload after vkMapMemory had failed.
unmapped_write == run_calls.unmapped_write

\* run_calls when call number no starts.
CallStarts(no, raised_before, binding, destroyed) ==
    [run_no |-> no, some_run_raised |-> raised_before, descriptor_binding_0 |-> binding,
     destroyed_buffers |-> destroyed, upload_done |-> FALSE, unmapped_write |-> FALSE]

kernelVars ==
    <<metadata, num_work_groups, pivot_pc, normalised, arrived, projected, touched,
      unnormalised_read>>

transferVars ==
    <<transfer_pc, matrix, vectors_as_columns, payload, original, device_wrote,
      host_out_of_bounds>>

benchVars == <<bench_pc, order_i, matrix_i, repeat_i, bench_n, bench_matrix>>

allocVars == <<memory_scan>>

\* The fields of memory_scan.
alloc_pc == memory_scan.pc                    \* "off", "scan", "allocated" or "raised"
memoryTypes == memory_scan.memoryTypes        \* vk_device_memory_properties.memoryTypes: index -> propertyFlags, heapIndex
memoryHeaps == memory_scan.memoryHeaps        \* vk_device_memory_properties.memoryHeaps: index -> size
memory_reqs == memory_scan.memory_reqs        \* vk_matrix_buffer_memory_reqs: size and memoryTypeBits
memory_type_i == memory_scan.memory_type_i    \* the loop variable
memoryTypeIndex == memory_scan.memoryTypeIndex \* the type vk_matrix_memory was allocated from, or NoIndex

vars == <<lifecycleVars, runVars, kernelVars, transferVars, benchVars, allocVars>>

\* What the steps of one part of the program leave unchanged.
exceptLifecycle == <<runVars, kernelVars, transferVars, benchVars, allocVars>>
exceptRun == <<lifecycleVars, kernelVars, transferVars, benchVars, allocVars>>
exceptKernel == <<lifecycleVars, runVars, transferVars, benchVars, allocVars>>
exceptTransfer == <<lifecycleVars, runVars, kernelVars, benchVars, allocVars>>
exceptBench == <<lifecycleVars, runVars, kernelVars, transferVars, allocVars>>
exceptAlloc == <<lifecycleVars, runVars, kernelVars, transferVars, benchVars>>

\* ------------------------------------------------------------ exceptions

NoError == [kind |-> "none", op |-> "none", codes |-> {}]

\* VK_VALIDATE's first throw: "Execution of <func> has failed with exitcode <vk_result> ...".
ExitcodeError(op, code) == [kind |-> "exitcode", op |-> op, codes |-> {code}]

\* VK_VALIDATE's catch (...) handler: "Execution of <func> has failed with exception ...".
ExceptionError(op) == [kind |-> "exception", op |-> op, codes |-> {}]

\* A std::runtime_error thrown directly, outside VK_VALIDATE.
PlainError(what) == [kind |-> "plain", op |-> what, codes |-> {}]

\* The validated calls of the constructor before device selection, and after it.
SetupCalls == {"vkEnumerateInstanceVersion", "vkCreateInstance", "vkEnumeratePhysicalDevices"}
BuildCalls ==
    {"vkCreateDevice", "vkCreateShaderModule", "vkCreateDescriptorSetLayout",
     "vkCreatePipelineLayout", "vkCreateComputePipelines", "vkCreateCommandPool",
     "vkAllocateCommandBuffers", "vkCreateDescriptorPool", "vkAllocateDescriptorSets",
     "vkCreateFence"}

\* The validated calls after device selection in the order the constructor
\* makes them, and the member each of them fills.
BuildCallOrder ==
    <<"vkCreateDevice", "vkCreateShaderModule", "vkCreateDescriptorSetLayout",
      "vkCreatePipelineLayout", "vkCreateComputePipelines", "vkCreateCommandPool",
      "vkAllocateCommandBuffers", "vkCreateDescriptorPool", "vkAllocateDescriptorSets",
      "vkCreateFence">>
BuildHandleOrder ==
    <<"vk_device", "vk_compute_shader", "vk_descriptor_set_0_layout",
      "vk_compute_pipeline_layout", "vk_compute_pipeline", "vk_command_pool",
      "vk_command_buffer", "vk_descriptor_pool", "vk_descriptor_set_0", "vk_fence">>

\* The handles created when the validated call op fails.
SetupHandlesBefore(op) == IF op = "vkEnumeratePhysicalDevices" THEN <<"vk_instance">> ELSE <<>>
BuildHandlesBefore(op) ==
    SubSeq(BuildHandleOrder, 1, (CHOOSE k \in DOMAIN BuildCallOrder : BuildCallOrder[k] = op) - 1)

\* What ~GPUGramSchmidt releases, in the order of its statements: the claim
\* on the occupancy map, then the handles.
DestructionOrder ==
    <<"claim", "vk_fence", "vk_descriptor_set_0", "vk_descriptor_pool", "vk_command_buffer",
      "vk_command_pool", "vk_compute_pipeline", "vk_compute_pipeline_layout",
      "vk_descriptor_set_0_layout", "vk_compute_shader", "vk_device", "vk_instance">>

\* The direct throws of the constructor before device selection.
SetupThrows == {"Vulkan 1.2 is not supported", "Debug layer was not found"}

\* ------------------------------------------------------- the mutex

\* std::mutex::unlock by the thread of solver i. Unlocking a mutex the thread
\* does not own is undefined: the mutex is left as it was or is released.
UnlockOutcomes(i) == IF constructor = i THEN {0} ELSE {constructor, 0}

\* -------------------------------------------------- device selection

\* The loop over queue families of one device from queue_family_i = f on, sel
\* being the pair selected so far. In C++ != and == bind tighter than &, so
\* "queueFlags & VK_QUEUE_COMPUTE_BIT != 0" is queueFlags & (VK_QUEUE_COMPUTE_BIT != 0).
RECURSIVE ScanFamilies(_, _, _, _, _)
ScanFamilies(gs, busy, g, f, sel) ==
    IF ~U32Less(f, Cardinality(DOMAIN gs[g].families)) THEN sel
    ELSE LET props == gs[g].families[f] IN
         IF BitAnd(props.queueFlags, BoolToInt(VK_QUEUE_COMPUTE_BIT # 0)) # 0
         THEN IF U32Less(busy[<<g, f>>], props.queueCount)
              THEN IF BitAnd(props.queueFlags, BoolToInt(VK_QUEUE_GRAPHICS_BIT = 0)) # 0
                   THEN <<g, f>>
                   ELSE ScanFamilies(gs, busy, g, f + 1, <<g, f>>)
              ELSE ScanFamilies(gs, busy, g, f + 1, sel)
         ELSE ScanFamilies(gs, busy, g, f + 1, sel)

\* The loop over physical devices from gpu_i = g on; <<NoIndex, NoIndex>> when
\* nothing is selected.
RECURSIVE ScanGpus(_, _, _)
ScanGpus(gs, busy, g) ==
    IF ~U32Less(g, Cardinality(DOMAIN gs)) THEN <<NoIndex, NoIndex>>
    ELSE IF ~gs[g].shaderFloat64 THEN ScanGpus(gs, busy, g + 1)
    ELSE LET sel == ScanFamilies(gs, busy, g, 0, <<NoIndex, NoIndex>>) IN
         IF sel[1] # NoIndex THEN sel ELSE ScanGpus(gs, busy, g + 1)

\* The number of queues a construction claims.
SelectedQueuesCount == 1

\* A constructor that assigns the count instead of adding it.
ClaimedOccupancy_Assign(old, count) == count
\* vk_busy_queues[pair] += count and -= count, on uint32_t.
ClaimedOccupancy(old, count) == old + count
\* A destructor that leaves the map as it found it.
ReleasedOccupancy_NoRelease(old, count) == old
ReleasedOccupancy(old, count) == old - count

\* ------------------------------------------------ constructor, destructor

SelectedPair(i) == <<vk_selected_gpu_i[i], vk_selected_queue_family_i[i]>>

\* No constructor or destructor of another solver is in progress.
OthersAtRest(i) ==
    \A j \in Solvers \ {i} : pc[j] \in {"none", "live", "destroyed", "failed"}

\* Objects are numbered in the order their construction starts.
NextToConstruct(i) == pc[i] = "none" /\ (IF i = 1 THEN TRUE ELSE pc[i - 1] # "none")

\* GPUGramSchmidt::constructor.lock(): blocks until the mutex is free.
CtorLock(i) ==
    /\ NextToConstruct(i)
    /\ constructor = 0
    /\ constructor' = i
    /\ pc' = [pc EXCEPT ![i] = "c_setup"]
    /\ UNCHANGED <<gpus, vk_busy_queues, vk_selected_gpu_i, vk_selected_queue_family_i,
                   vk_selected_queues_count, rmw, vk_result, thrown, acquired, released>>
    /\ UNCHANGED exceptLifecycle

\* A validated call of the constructor returns code # VK_SUCCESS: the macro
\* unlocks the mutex and throws inside its own try block.
ValidateFails(i, op, code) ==
    /\ vk_result' = [vk_result EXCEPT ![i] = code]
    /\ constructor' \in UnlockOutcomes(i)
    /\ thrown' = [thrown EXCEPT ![i] = ExitcodeError(op, code)]
    /\ pc' = [pc EXCEPT ![i] = "v_catch"]

\* A direct throw: the exception leaves the constructor, the mutex stays locked.
ThrowsDirectly(i, what) ==
    /\ thrown' = [thrown EXCEPT ![i] = PlainError(what)]
    /\ pc' = [pc EXCEPT ![i] = "raised"]
    /\ UNCHANGED <<constructor, vk_result>>

\* Steps 2 and 3.1: version checks, debug layers, instance, device enumeration.
CtorSetup(i) ==
    /\ pc[i] = "c_setup"
    /\ \/ /\ pc' = [pc EXCEPT ![i] = "c_select"]
          /\ acquired' = [acquired EXCEPT ![i] = <<"vk_instance">>]
          /\ UNCHANGED <<constructor, vk_result, thrown>>
       \/ \E what \in SetupThrows : ThrowsDirectly(i, what) /\ UNCHANGED acquired
       \/ \E op \in SetupCalls, code \in FailureCodes :
             /\ ValidateFails(i, op, code)
             /\ acquired' = [acquired EXCEPT ![i] = SetupHandlesBefore(op)]
    /\ UNCHANGED <<gpus, vk_busy_queues, vk_selected_gpu_i, vk_selected_queue_family_i,
                   vk_selected_queues_count, rmw, released>>
    /\ UNCHANGED exceptLifecycle

\* Step 3.2: the scan, and the load of the += that marks the queue occupied.
CtorSelect(i) ==
    /\ pc[i] = "c_select"
    /\ LET sel == ScanGpus(gpus, vk_busy_queues, 0) IN
       /\ vk_selected_gpu_i' = [vk_selected_gpu_i EXCEPT ![i] = sel[1]]
       /\ vk_selected_queue_family_i' = [vk_selected_queue_family_i EXCEPT ![i] = sel[2]]
       /\ IF sel[1] = NoIndex
          THEN /\ ThrowsDirectly(i, "all available queues are occupied")
               /\ UNCHANGED <<vk_selected_queues_count, rmw>>
          ELSE /\ vk_selected_queues_count' =
                      [vk_selected_queues_count EXCEPT ![i] = SelectedQueuesCount]
               /\ rmw' = [rmw EXCEPT ![i] = vk_busy_queues[sel]]
               /\ pc' = [pc EXCEPT ![i] = "c_claim"]
               /\ UNCHANGED <<constructor, vk_result, thrown>>
    /\ UNCHANGED <<gpus, vk_busy_queues, acquired, released>>
    /\ UNCHANGED exceptLifecycle

\* The store of vk_busy_queues[selected pair] += vk_selected_queues_count.
CtorClaim(i) ==
    /\ pc[i] = "c_claim"
    /\ vk_busy_queues' = [vk_busy_queues EXCEPT ![SelectedPair(i)] =
                              ClaimedOccupancy(rmw[i], vk_selected_queues_count[i])]
    /\ pc' = [pc EXCEPT ![i] = "c_build"]
    /\ acquired' = [acquired EXCEPT ![i] = Append(@, "claim")]
    /\ UNCHANGED <<gpus, constructor, vk_selected_gpu_i, vk_selected_queue_family_i,
                   vk_selected_queues_count, rmw, vk_result, thrown, released>>
    /\ UNCHANGED exceptLifecycle

\* Steps 4 to 13: logical device, shader file and module, layouts, pipeline,
\* command pool and buffer, descriptor pool and set, fence.
CtorBuild(i) ==
    /\ pc[i] = "c_build"
    /\ \/ /\ pc' = [pc EXCEPT ![i] = "c_unlock"]
          /\ acquired' = [acquired EXCEPT ![i] = @ \o BuildHandleOrder]
          /\ UNCHANGED <<constructor, vk_result, thrown>>
       \/ /\ ThrowsDirectly(i, "vulkan-gram-schmidt.spv was not found")
          /\ acquired' = [acquired EXCEPT ![i] = @ \o BuildHandlesBefore("vkCreateShaderModule")]
       \/ \E op \in BuildCalls, code \in FailureCodes :
             /\ ValidateFails(i, op, code)
             /\ acquired' = [acquired EXCEPT ![i] = @ \o BuildHandlesBefore(op)]
    /\ UNCHANGED <<gpus, vk_busy_queues, vk_selected_gpu_i, vk_selected_queue_family_i,
                   vk_selected_queues_count, rmw, released>>
    /\ UNCHANGED exceptLifecycle

\* Step 14: GPUGramSchmidt::constructor.unlock(); the object is constructed.
CtorUnlock(i) ==
    /\ pc[i] = "c_unlock"
    /\ constructor' \in UnlockOutcomes(i)
    /\ pc' = [pc EXCEPT ![i] = "live"]
    /\ rmw' = [rmw EXCEPT ![i] = 0]
    /\ UNCHANGED <<gpus, vk_busy_queues, vk_selected_gpu_i, vk_selected_queue_family_i,
                   vk_selected_queues_count, vk_result, thrown, acquired, released>>
    /\ UNCHANGED exceptLifecycle

\* VK_VALIDATE's catch (...) handler catches the macro's own throw, unlocks the
\* mutex a second time and throws the "failed with exception" error.
ValidateCatch(i) ==
    /\ pc[i] = "v_catch"
    /\ constructor' \in UnlockOutcomes(i)
    /\ thrown' = [thrown EXCEPT ![i] = ExceptionError(thrown[i].op)]
    /\ pc' = [pc EXCEPT ![i] = "raised"]
    /\ UNCHANGED <<gpus, vk_busy_queues, vk_selected_gpu_i, vk_selected_queue_family_i,
                   vk_selected_queues_count, rmw, vk_result, acquired, released>>
    /\ UNCHANGED exceptLifecycle

\* The object's storage is gone: its members and the locals of its
\* constructor or destructor hold nothing any more.
Forgotten(i) ==
    /\ vk_selected_gpu_i' = [vk_selected_gpu_i EXCEPT ![i] = NoIndex]
    /\ vk_selected_queue_family_i' = [vk_selected_queue_family_i EXCEPT ![i] = NoIndex]
    /\ vk_selected_queues_count' = [vk_selected_queues_count EXCEPT ![i] = 0]
    /\ rmw' = [rmw EXCEPT ![i] = 0]

\* The caller's handler takes the exception; no object exists.
CallerCatches(i) ==
    /\ pc[i] = "raised"
    /\ thrown' = [thrown EXCEPT ![i] = NoError]
    /\ pc' = [pc EXCEPT ![i] = "failed"]
    /\ vk_result' = [vk_result EXCEPT ![i] = VK_SUCCESS]
    /\ Forgotten(i)
    /\ acquired' = [acquired EXCEPT ![i] = <<>>]
    /\ UNCHANGED <<gpus, vk_busy_queues, constructor, released>>
    /\ UNCHANGED exceptLifecycle

\* ~GPUGramSchmidt: the load of vk_busy_queues[selected pair] -= count.
DtorLoad(i) ==
    /\ pc[i] = "live"
    /\ rmw' = [rmw EXCEPT ![i] = vk_busy_queues[SelectedPair(i)]]
    /\ pc' = [pc EXCEPT ![i] = "d_store"]
    /\ UNCHANGED <<gpus, vk_busy_queues, constructor, vk_selected_gpu_i,
                   vk_selected_queue_family_i, vk_selected_queues_count, vk_result, thrown,
                   acquired, released>>
    /\ UNCHANGED exceptLifecycle

\* ~GPUGramSchmidt: the store of the -=, then the vkDestroy... calls.
DtorStore(i) ==
    /\ pc[i] = "d_store"
    /\ vk_busy_queues' = [vk_busy_queues EXCEPT ![SelectedPair(i)] =
                              ReleasedOccupancy(rmw[i], vk_selected_queues_count[i])]
    /\ pc' = [pc EXCEPT ![i] = "destroyed"]
    /\ released' = [released EXCEPT ![i] = DestructionOrder]
    /\ Forgotten(i)
    /\ UNCHANGED <<gpus, constructor, vk_result, thrown, acquired>>
    /\ UNCHANGED exceptLifecycle

\* ------------------------------------------------------ specifications

\* No run is in progress.
RunIdle ==
    /\ run_pc = "idle"
    /\ matrix_size = 0
    /\ start_vec_i = 0
    /\ push_constants = <<0, 0, 0>>
    /\ vk_command_buffer = <<>>
    /\ vk_fence = "unsignaled"
    /\ in_flight = <<>>
    /\ vk_matrix_buffer = "none"
    /\ vk_matrix_memory = "none"
    /\ submitted = <<>>
    /\ timed_out_at = NoIndex
    /\ run_thrown = NoError
    /\ run_calls = CallStarts(0, FALSE, 0, {})

\* No kernel launch is modelled.
KernelOff ==
    /\ metadata = <<0, 0, 0>>
    /\ num_work_groups = 0
    /\ pivot_pc = "off"
    /\ normalised = 0
    /\ arrived = <<>>
    /\ projected = <<>>
    /\ touched = <<>>
    /\ unnormalised_read = FALSE

\* No copy between a container and the buffer is modelled.
TransferOff ==
    /\ transfer_pc = "off"
    /\ matrix = <<>>
    /\ vectors_as_columns = FALSE
    /\ payload = <<>>
    /\ original = <<>>
    /\ device_wrote = FALSE
    /\ host_out_of_bounds = FALSE

\* The benchmark is not modelled.
BenchOff ==
    /\ bench_pc = "off"
    /\ order_i = 0
    /\ matrix_i = 0
    /\ repeat_i = 0
    /\ bench_n = 0
    /\ bench_matrix = <<0, 0>>

\* The scan of the memory types is not modelled.
AllocOff ==
    memory_scan = [pc |-> "off", memoryTypes |-> <<>>, memoryHeaps |-> <<>>,
                   memory_reqs |-> [size |-> 0, memoryTypeBits |-> 0],
                   memory_type_i |-> 0, memoryTypeIndex |-> NoIndex]

LifecycleInit(platforms) ==
    /\ RunIdle
    /\ KernelOff
    /\ TransferOff
    /\ BenchOff
    /\ AllocOff
    /\ gpus \in platforms
    /\ vk_busy_queues = [p \in Pairs(gpus) |-> 0]
    /\ constructor = 0
    /\ pc = [i \in Solvers |-> "none"]
    /\ vk_selected_gpu_i = [i \in Solvers |-> NoIndex]
    /\ vk_selected_queue_family_i = [i \in Solvers |-> NoIndex]
    /\ vk_selected_queues_count = [i \in Solvers |-> 0]
    /\ rmw = [i \in Solvers |-> 0]
    /\ vk_result = [i \in Solvers |-> VK_SUCCESS]
    /\ thrown = [i \in Solvers |-> NoError]
    /\ acquired = [i \in Solvers |-> <<>>]
    /\ released = [i \in Solvers |-> <<>>]

\* Constructors and destructors of several objects running on threads of
\* their own, on the platforms with one device and one queue family.
Init == LifecycleInit(PlatformsOf(OneDevice))

Next ==
    \E i \in Solvers :
        \/ CtorLock(i)
        \/ CtorSetup(i)
        \/ CtorSelect(i)
        \/ CtorClaim(i)
        \/ CtorBuild(i)
        \/ CtorUnlock(i)
        \/ ValidateCatch(i)
        \/ CallerCatches(i)
        \/ DtorLoad(i)
        \/ DtorStore(i)

Spec == Init /\ [][Next]_vars

\* One thread constructing and destroying objects one after the other, on
\* the platforms with two devices, of two queue families and of one.
SeqInit == LifecycleInit(PlatformsOf(TwoDevices))

SeqNext ==
    \E i \in Solvers :
        \/ OthersAtRest(i) /\ CtorLock(i)
        \/ CtorSetup(i)
        \/ CtorSelect(i)
        \/ CtorClaim(i)
        \/ CtorBuild(i)
        \/ CtorUnlock(i)
        \/ ValidateCatch(i)
        \/ CallerCatches(i)
        \/ OthersAtRest(i) /\ DtorLoad(i)
        \/ DtorStore(i)

SeqSpec == SeqInit /\ [][SeqNext]_vars

\* ------------------------------------------------------------------ run

\* The statuses a validated call of run is modelled to return.
CallResults == {VK_SUCCESS} \cup FailureCodes

\* VK_VALIDATE's test of the status of a call.
IsFailure_NegativeOnly(result) == result < 0
IsFailure(result) == result # VK_SUCCESS

\* The loop's ++start_vec_i.
NextStartVec_Skip(i) == i + 2
NextStartVec(i) == i + 1

\* A group count that is rounded down.
DispatchGroups_RoundDown(n, start) == (n - start) \div DispatchDivisor
\* The group count given to vkCmdDispatch.
DispatchGroups(n, start) ==
    (n - start) \div DispatchDivisor + BoolToInt((n - start) % DispatchDivisor > 0)

\* VK_VALIDATE(..., false) on a call that failed: the macro's throw is caught
\* by its own catch (...) handler, whose error leaves run.
RunRaises(op) ==
    /\ run_thrown' = ExceptionError(op)
    /\ run_pc' = "raised"

\* Step 1: vkCreateBuffer and the memory requirements.
RunCreateBuffer ==
    /\ run_pc = "create_buffer"
    /\ \E result \in CallResults :
          IF IsFailure(result)
          THEN RunRaises("vkCreateBuffer") /\ UNCHANGED vk_matrix_buffer
          ELSE /\ vk_matrix_buffer' = "created"
               /\ run_pc' = "allocate"
               /\ UNCHANGED run_thrown
    /\ UNCHANGED <<matrix_size, start_vec_i, push_constants, vk_command_buffer, vk_fence,
                   in_flight, vk_matrix_memory, submitted, timed_out_at>>
    /\ UNCHANGED run_calls
    /\ UNCHANGED exceptRun

\* Step 2: the scan of the memory types with vkAllocateMemory.
RunAllocate ==
    /\ run_pc = "allocate"
    /\ \E allocation_success \in BOOLEAN :
          IF allocation_success
          THEN /\ vk_matrix_memory' = "allocated"
               /\ run_pc' = "bind"
               /\ UNCHANGED run_thrown
          ELSE /\ run_thrown' = PlainError("Unable to allocate memory on your GPU.")
               /\ run_pc' = "raised"
               /\ UNCHANGED vk_matrix_memory
    /\ UNCHANGED <<matrix_size, start_vec_i, push_constants, vk_command_buffer, vk_fence,
                   in_flight, vk_matrix_buffer, submitted, timed_out_at>>
    /\ UNCHANGED run_calls
    /\ UNCHANGED exceptRun

\* Step 3: vkBindBufferMemory.
RunBind ==
    /\ run_pc = "bind"
    /\ \E result \in CallResults :
          IF IsFailure(result)
          THEN RunRaises("vkBindBufferMemory")
          ELSE run_pc' = "upload" /\ UNCHANGED run_thrown
    /\ UNCHANGED <<matrix_size, start_vec_i, push_constants, vk_command_buffer, vk_fence,
                   in_flight, vk_matrix_buffer, vk_matrix_memory, submitted, timed_out_at>>
    /\ UNCHANGED run_calls
    /\ UNCHANGED exceptRun

\* vkUpdateDescriptorSets of step 5 on a descriptor set that named the buffer
\* of call old: binding 0 names the buffer of the call in progress.
BoundBuffer_Stale(old, current) == IF old = 0 THEN current ELSE old
BoundBuffer(old, current) == current

\* Steps 4, 5 and the start of 6: the matrix is copied into the buffer, the
\* descriptor set is updated, push_constants is initialised and the loop is
\* entered with start_vec_i = 0. The status of step 4's vkMapMemory is not
\* looked at: after a failure payload is no mapping, and the writes through
\* it are undefined, the process dies of them or goes on.
RunUpload ==
    /\ run_pc = "upload"
    /\ \E map_result \in CallResults, survives \in BOOLEAN :
          LET wild == IsFailure(map_result) /\ 0 < matrix_size IN
          IF wild /\ ~survives
          THEN /\ run_calls' = [run_calls EXCEPT !.unmapped_write = wild]
               /\ run_pc' = "crashed"
               /\ UNCHANGED <<push_constants, start_vec_i>>
          ELSE /\ run_calls' =
                      [run_calls EXCEPT
                          !.unmapped_write = wild,
                          !.upload_done = TRUE,
                          !.descriptor_binding_0 = BoundBuffer(descriptor_binding_0, run_no)]
               /\ push_constants' = <<matrix_size, matrix_size, 0>>
               /\ start_vec_i' = 0
               /\ run_pc' = IF 0 < matrix_size THEN "record" ELSE "map"
    /\ UNCHANGED <<matrix_size, vk_command_buffer, vk_fence, in_flight, vk_matrix_buffer,
                   vk_matrix_memory, submitted, timed_out_at, run_thrown>>
    /\ UNCHANGED exceptRun

\* The offset and the size, in bytes, given to vkCmdPushConstants; the
\* pipeline layout declares the same range.
PushConstantsOffset == 0
PushConstantsSize == 4 * 3

\* The byte offsets of dim, vector_count and start_vec_i in the kernel's
\* push-constant block: three uint members, four bytes each.
MetadataOffsets == <<0, 4, 8>>

\* A block whose members arrive in the opposite order.
vkCmdPushConstants_Reversed(offset, size, values) == <<values[3], values[2], values[1]>>
\* The block <<dim, vector_count, start_vec_i>> the kernel of the dispatch
\* reads after vkCmdPushConstants(..., offset, size, values): a member whose
\* four bytes lie in offset .. offset + size - 1 takes the uint32_t of values
\* at that distance from offset, another member is left unset.
vkCmdPushConstants(offset, size, values) ==
    [member \in 1..3 |->
        LET byte == MetadataOffsets[member] IN
        IF offset <= byte /\ byte + 4 <= offset + size
        THEN values[(byte - offset) \div 4 + 1]
        ELSE NoIndex]

\* Steps 6.1 to 6.5: vkBeginCommandBuffer, the binds, the push constants with
\* push_constants[2] = start_vec_i, vkCmdDispatch, vkEndCommandBuffer.
RunRecord ==
    /\ run_pc = "record"
    /\ \E begin_result, end_result \in CallResults :
          IF IsFailure(begin_result)
          THEN RunRaises("vkBeginCommandBuffer") /\ UNCHANGED <<push_constants, vk_command_buffer>>
          ELSE /\ push_constants' = [push_constants EXCEPT ![3] = start_vec_i]
               /\ vk_command_buffer' =
                      <<[constants |-> vkCmdPushConstants(PushConstantsOffset, PushConstantsSize,
                                                          push_constants'),
                         groups |-> DispatchGroups(matrix_size, start_vec_i)]>>
               /\ IF IsFailure(end_result)
                  THEN RunRaises("vkEndCommandBuffer")
                  ELSE run_pc' = "submit" /\ UNCHANGED run_thrown
    /\ UNCHANGED <<matrix_size, start_vec_i, vk_fence, in_flight, vk_matrix_buffer,
                   vk_matrix_memory, submitted, timed_out_at>>
    /\ UNCHANGED run_calls
    /\ UNCHANGED exceptRun

\* Step 6.6: vkQueueSubmit of the command buffer, with the fence.
RunSubmit ==
    /\ run_pc = "submit"
    /\ \E result \in CallResults :
          IF IsFailure(result)
          THEN RunRaises("vkQueueSubmit") /\ UNCHANGED <<in_flight, submitted>>
          ELSE /\ in_flight' = vk_command_buffer
               /\ submitted' = submitted \o vk_command_buffer
               /\ run_pc' = "wait"
               /\ UNCHANGED run_thrown
    /\ UNCHANGED <<matrix_size, start_vec_i, push_constants, vk_command_buffer, vk_fence,
                   vk_matrix_buffer, vk_matrix_memory, timed_out_at>>
    /\ UNCHANGED run_calls
    /\ UNCHANGED exceptRun

\* The device finishes the submission and signals the fence.
DeviceFinishes ==
    /\ in_flight # <<>>
    /\ in_flight' = <<>>
    /\ vk_fence' = "signaled"
    /\ UNCHANGED <<run_pc, matrix_size, start_vec_i, push_constants, vk_command_buffer,
                   vk_matrix_buffer, vk_matrix_memory, submitted, timed_out_at, run_thrown>>
    /\ UNCHANGED run_calls
    /\ UNCHANGED exceptRun

\* A wait without a timeout: it returns only once the fence is signaled.
WaitResults_Unbounded == IF vk_fence = "signaled" THEN {VK_SUCCESS} ELSE {}
\* A wait that returns VK_SUCCESS whether or not the fence is signaled.
WaitResults_Immediate == {VK_SUCCESS}
\* The statuses vkWaitForFences can return: VK_SUCCESS once the fence is
\* signaled; before that the 10 ms run out or the device is lost.
WaitResults == IF vk_fence = "signaled" THEN {VK_SUCCESS} ELSE {VK_TIMEOUT, VK_ERROR_DEVICE_LOST}

\* Step 6.7, first call: vkWaitForFences.
RunWait ==
    /\ run_pc = "wait"
    /\ \E result \in WaitResults :
          /\ timed_out_at' = IF result = VK_TIMEOUT THEN start_vec_i ELSE timed_out_at
          /\ IF IsFailure(result)
             THEN RunRaises("vkWaitForFences")
             ELSE run_pc' = "reset" /\ UNCHANGED run_thrown
    /\ UNCHANGED <<matrix_size, start_vec_i, push_constants, vk_command_buffer, vk_fence,
                   in_flight, vk_matrix_buffer, vk_matrix_memory, submitted>>
    /\ UNCHANGED run_calls
    /\ UNCHANGED exceptRun

\* vkResetFences on the fence.
ResetFence_Keep(fence) == fence
ResetFence(fence) == "unsignaled"

\* Step 6.7, second call: vkResetFences; then ++start_vec_i and the loop test.
RunReset ==
    /\ run_pc = "reset"
    /\ \E result \in CallResults :
          IF IsFailure(result)
          THEN RunRaises("vkResetFences") /\ UNCHANGED <<vk_fence, start_vec_i>>
          ELSE /\ vk_fence' = ResetFence(vk_fence)
               /\ start_vec_i' = NextStartVec(start_vec_i)
               /\ run_pc' = IF start_vec_i' < matrix_size THEN "record" ELSE "map"
               /\ UNCHANGED run_thrown
    /\ UNCHANGED <<matrix_size, push_constants, vk_command_buffer, in_flight,
                   vk_matrix_buffer, vk_matrix_memory, submitted, timed_out_at>>
    /\ UNCHANGED run_calls
    /\ UNCHANGED exceptRun

\* Step 7: vkMapMemory, the copy into the matrix, vkDestroyBuffer, vkFreeMemory.
RunDownload ==
    /\ run_pc = "map"
    /\ \E result \in CallResults :
          IF IsFailure(result)
          THEN RunRaises("vkMapMemory")
               /\ UNCHANGED <<vk_matrix_buffer, vk_matrix_memory, run_calls>>
          ELSE /\ vk_matrix_buffer' = "destroyed"
               /\ vk_matrix_memory' = "freed"
               /\ run_calls' = [run_calls EXCEPT !.destroyed_buffers = @ \cup {run_no}]
               /\ run_pc' = "returned"
               /\ UNCHANGED run_thrown
    /\ UNCHANGED <<matrix_size, start_vec_i, push_constants, vk_command_buffer, vk_fence,
                   in_flight, submitted, timed_out_at>>
    /\ UNCHANGED exceptRun

\* run is called again on the object, with a square matrix of 1 to MaxReuseDim
\* rows, after the previous call has returned or raised and the device has
\* finished what that call submitted. The locals of run start afresh; the
\* members of the object are as the previous call left them.
RunAgain ==
    /\ run_pc \in {"returned", "raised"}
    /\ in_flight = <<>>
    /\ run_no < MaxRuns
    /\ run_calls' = CallStarts(run_no + 1, some_run_raised \/ run_pc = "raised",
                               descriptor_binding_0, destroyed_buffers)
    /\ matrix_size' \in 1..MaxReuseDim
    /\ run_pc' = "create_buffer"
    /\ start_vec_i' = 0
    /\ push_constants' = <<0, 0, 0>>
    /\ vk_matrix_buffer' = "none"
    /\ vk_matrix_memory' = "none"
    /\ submitted' = <<>>
    /\ timed_out_at' = NoIndex
    /\ run_thrown' = NoError
    /\ UNCHANGED <<vk_command_buffer, vk_fence, in_flight>>
    /\ UNCHANGED exceptRun

\* One constructed object on a device with one graphics and compute family.
OneLiveSolver ==
    /\ gpus = (0 :> [shaderFloat64 |-> TRUE,
                     families |-> (0 :> [queueFlags |-> VK_QUEUE_GRAPHICS_BIT + VK_QUEUE_COMPUTE_BIT,
                                         queueCount |-> 1])])
    /\ vk_busy_queues = (<<0, 0>> :> 1)
    /\ constructor = 0
    /\ pc = [i \in Solvers |-> IF i = 1 THEN "live" ELSE "none"]
    /\ vk_selected_gpu_i = [i \in Solvers |-> IF i = 1 THEN 0 ELSE NoIndex]
    /\ vk_selected_queue_family_i = [i \in Solvers |-> IF i = 1 THEN 0 ELSE NoIndex]
    /\ vk_selected_queues_count = [i \in Solvers |-> IF i = 1 THEN SelectedQueuesCount ELSE 0]
    /\ rmw = [i \in Solvers |-> 0]
    /\ vk_result = [i \in Solvers |-> VK_SUCCESS]
    /\ thrown = [i \in Solvers |-> NoError]
    /\ acquired = [i \in Solvers |->
                      IF i = 1 THEN <<"vk_instance", "claim">> \o BuildHandleOrder ELSE <<>>]
    /\ released = [i \in Solvers |-> <<>>]

\* run is called for the first time on a constructed object, with a square
\* matrix whose number of rows is in sizes.
FirstRun(sizes) ==
    /\ OneLiveSolver
    /\ KernelOff
    /\ TransferOff
    /\ BenchOff
    /\ AllocOff
    /\ run_pc = "create_buffer"
    /\ matrix_size \in sizes
    /\ start_vec_i = 0
    /\ push_constants = <<0, 0, 0>>
    /\ vk_command_buffer = <<>>
    /\ vk_fence = "unsignaled"
    /\ in_flight = <<>>
    /\ vk_matrix_buffer = "none"
    /\ vk_matrix_memory = "none"
    /\ submitted = <<>>
    /\ timed_out_at = NoIndex
    /\ run_thrown = NoError
    /\ run_calls = CallStarts(1, FALSE, 0, {})

\* One call of run with a square matrix of 1 to MaxDim rows.
RunInit == FirstRun(1..MaxDim)

RunNext ==
    \/ RunCreateBuffer
    \/ RunAllocate
    \/ RunBind
    \/ RunUpload
    \/ RunRecord
    \/ RunSubmit
    \/ DeviceFinishes
    \/ RunWait
    \/ RunReset
    \/ RunDownload

RunSpec == RunInit /\ [][RunNext]_vars

\* The steps of the thread that called run. Every platform call of run
\* returns, vkWaitForFences after 10 ms at the latest, so the thread goes on
\* as long as run has a next statement; nothing makes the device finish.
RunHostStep ==
    \/ RunCreateBuffer
    \/ RunAllocate
    \/ RunBind
    \/ RunUpload
    \/ RunRecord
    \/ RunSubmit
    \/ RunWait
    \/ RunReset
    \/ RunDownload

RunLiveSpec == RunInit /\ [][RunNext]_vars /\ WF_vars(RunHostStep)

\* Up to MaxRuns calls of run on one object, one after the other, with square
\* matrices of 1 to MaxReuseDim rows.
ReuseInit == FirstRun(1..MaxReuseDim)

ReuseNext ==
    \/ RunNext
    \/ RunAgain

ReuseSpec == ReuseInit /\ [][ReuseNext]_vars

\* --------------------------------------------------- kernel launch

\* gl_GlobalInvocationID.x of the invocations of work group g.
InvocationsOf(g) == (g * local_size_x)..(g * local_size_x + local_size_x - 1)

\* An invocation index taken for the vector index.
CurrVec_NoOffset(gid) == gid
\* curr_vec_i of invocation gid.
CurrVec(gid) == gid + metadata[3]

\* The macro VECTOR_INDEX(x), x * dim.
VECTOR_INDEX(x) == x * metadata[1]

\* The invocations of work group g that pass the test of the second phase,
\* (curr_vec_i < vector_count) && (curr_vec_i > start_vec_i).
Projecting_NoUpperTest(g) == {gid \in InvocationsOf(g) : CurrVec(gid) > metadata[3]}
Projecting(g) ==
    {gid \in InvocationsOf(g) : CurrVec(gid) < metadata[2] /\ CurrVec(gid) > metadata[3]}

\* The indices of matrix.data the loops over dim_i address in vector x.
VectorIndices(x) == {VECTOR_INDEX(x) + dim_i : dim_i \in 0..(metadata[1] - 1)}

\* The next invocation of work group g to run the second phase; the
\* invocations of a group are taken in the order of their ids.
NextProjecting(g) ==
    CHOOSE gid \in Projecting(g) :
        Cardinality({other \in Projecting(g) : other < gid}) = projected[g]

\* touched after the indices of the non-empty set S are read or written.
Touch(S) ==
    LET all == S \cup (IF touched = <<>> THEN {} ELSE {touched[1], touched[2]}) IN
    <<CHOOSE lo \in all : \A x \in all : lo <= x, CHOOSE hi \in all : \A x \in all : hi >= x>>

\* The invocations of work group g that have reached barrier(); invocation 0
\* belongs to work group 0.
AtBarrier(g) == arrived[g] + BoolToInt(g = 0 /\ pivot_pc = "barrier")

\* barrier() lets the invocations of a work group go on once all local_size_x
\* invocations of that work group have reached it.
BarrierOpen(g) == AtBarrier(g) = local_size_x

\* Invocation 0, the first loop and sqrt: the norm of the pivot vector.
PivotNorm ==
    /\ pivot_pc = "norm"
    /\ pivot_pc' = "divide"
    /\ touched' = Touch(VectorIndices(metadata[3]) \cup VectorIndices(CurrVec(0)))
    /\ UNCHANGED <<metadata, num_work_groups, normalised, arrived, projected, unnormalised_read>>
    /\ UNCHANGED exceptKernel

\* Invocation 0, one iteration of the second loop: a coordinate /= norm.
PivotDivide ==
    /\ pivot_pc = "divide"
    /\ normalised < metadata[1]
    /\ normalised' = normalised + 1
    /\ touched' = Touch({VECTOR_INDEX(CurrVec(0)) + normalised})
    /\ UNCHANGED <<metadata, num_work_groups, pivot_pc, arrived, projected, unnormalised_read>>
    /\ UNCHANGED exceptKernel

\* Invocation 0 leaves the second loop and reaches barrier().
PivotArrives ==
    /\ pivot_pc = "divide"
    /\ normalised = metadata[1]
    /\ pivot_pc' = "barrier"
    /\ UNCHANGED <<metadata, num_work_groups, normalised, arrived, projected, touched,
                   unnormalised_read>>
    /\ UNCHANGED exceptKernel

\* An invocation other than 0 skips the first phase and reaches barrier().
InvocationArrives(g) ==
    /\ arrived[g] < local_size_x - BoolToInt(g = 0)
    /\ arrived' = [arrived EXCEPT ![g] = @ + 1]
    /\ UNCHANGED <<metadata, num_work_groups, pivot_pc, normalised, projected, touched,
                   unnormalised_read>>
    /\ UNCHANGED exceptKernel

\* An invocation past barrier() that passes the test of the second phase
\* reads the pivot vector and its own, and subtracts the projection.
InvocationProjects(g) ==
    /\ BarrierOpen(g)
    /\ projected[g] < Cardinality(Projecting(g))
    /\ projected' = [projected EXCEPT ![g] = @ + 1]
    /\ touched' = Touch(VectorIndices(metadata[3]) \cup VectorIndices(CurrVec(NextProjecting(g))))
    /\ unnormalised_read' = (unnormalised_read \/ normalised < metadata[1])
    /\ UNCHANGED <<metadata, num_work_groups, pivot_pc, normalised, arrived>>
    /\ UNCHANGED exceptKernel

\* One dispatch of run: matrix.size() = n in 1..MaxDim, pivot index below n.
KernelInit ==
    /\ OneLiveSolver
    /\ RunIdle
    /\ TransferOff
    /\ BenchOff
    /\ AllocOff
    /\ \E n \in 1..MaxDim : \E start \in 0..(n - 1) :
          /\ metadata = <<n, n, start>>
          /\ num_work_groups = DispatchGroups(n, start)
    /\ pivot_pc = "norm"
    /\ normalised = 0
    /\ arrived = [g \in 0..(num_work_groups - 1) |-> 0]
    /\ projected = [g \in 0..(num_work_groups - 1) |-> 0]
    /\ touched = <<>>
    /\ unnormalised_read = FALSE

KernelNext ==
    \/ PivotNorm
    \/ PivotDivide
    \/ PivotArrives
    \/ \E g \in DOMAIN arrived : InvocationArrives(g)
    \/ \E g \in DOMAIN arrived : InvocationProjects(g)

KernelSpec == KernelInit /\ [][KernelNext]_vars

\* ------------------------------------------- upload and download

\* The values of the matrix entries.
HostValues == {0, 1}

\* The containers passed to run: 1 to MaxHostDim rows, each of 1 to
\* MaxHostDim entries; rows and columns are indexed from 0.
RowsOfLength(len) == [0..(len - 1) -> HostValues]
Containers ==
    UNION {[0..(n - 1) -> UNION {RowsOfLength(len) : len \in 1..MaxHostDim}] :
           n \in 1..MaxHostDim}

\* matrix.size()
Size(m) == Cardinality(DOMAIN m)

IsSquare(m) == \A r \in DOMAIN m : Cardinality(DOMAIN m[r]) = Size(m)

\* m[cell[1]][cell[2]] is an element of the container.
InBounds(m, cell) == cell[1] \in DOMAIN m /\ cell[2] \in DOMAIN m[cell[1]]

\* The element of the container that step 4 reads for payload[i * n + j]:
\* vectors_as_columns ? matrix[j][i] : matrix[i][j].
UploadCell_NoTranspose(i, j, columns) == <<i, j>>
UploadCell(i, j, columns) == IF columns THEN <<j, i>> ELSE <<i, j>>

\* The element of the container that step 7 writes payload[i * n + j] to:
\* matrix[vectors_as_columns ? j : i][vectors_as_columns ? i : j].
DownloadCell_NoTranspose(i, j, columns) == <<i, j>>
DownloadCell(i, j, columns) == <<IF columns THEN j ELSE i, IF columns THEN i ELSE j>>

\* An offset with the two indices exchanged.
Offset_ColumnMajor(m, i, j) == j * Size(m) + i
\* The offset i * matrix.size() + j in the buffer.
Offset(m, i, j) == i * Size(m) + j

\* The index pairs of both double loops.
LoopPairs(m) == (0..(Size(m) - 1)) \X (0..(Size(m) - 1))

\* The buffers step 4 can leave: an element read inside the container gives
\* its value, a read beyond the end of a row gives any value.
UploadedPayloads(m, columns) ==
    {p \in [0..(Size(m) * Size(m) - 1) -> HostValues] :
        \A ij \in LoopPairs(m) :
            LET cell == UploadCell(ij[1], ij[2], columns) IN
            InBounds(m, cell) => p[Offset(m, ij[1], ij[2])] = m[cell[1]][cell[2]]}

\* The container after step 7; a write beyond the end of a row changes no
\* element of the container.
Downloaded(m, p, columns) ==
    [r \in DOMAIN m |->
        [c \in DOMAIN m[r] |->
            LET from == {ij \in LoopPairs(m) : DownloadCell(ij[1], ij[2], columns) = <<r, c>>} IN
            IF from = {} THEN m[r][c]
            ELSE LET ij == CHOOSE last \in from :
                               \A other \in from :
                                   Offset(m, other[1], other[2]) <= Offset(m, last[1], last[2])
                 IN p[Offset(m, ij[1], ij[2])]]]

\* One of the double loops indexes a row at or beyond its length.
UploadLeavesContainer(m, columns) ==
    \E ij \in LoopPairs(m) : ~InBounds(m, UploadCell(ij[1], ij[2], columns))
DownloadLeavesContainer(m, columns) ==
    \E ij \in LoopPairs(m) : ~InBounds(m, DownloadCell(ij[1], ij[2], columns))

\* Step 4: the container is copied into the mapped buffer. An access beyond
\* the end of a row is undefined: it yields some value or ends the process.
Upload ==
    /\ transfer_pc = "called"
    /\ host_out_of_bounds' = (host_out_of_bounds \/ UploadLeavesContainer(matrix, vectors_as_columns))
    /\ \/ /\ payload' \in UploadedPayloads(matrix, vectors_as_columns)
          /\ transfer_pc' = "uploaded"
       \/ /\ UploadLeavesContainer(matrix, vectors_as_columns)
          /\ transfer_pc' = "crashed"
          /\ UNCHANGED payload
    /\ UNCHANGED <<matrix, vectors_as_columns, original, device_wrote>>
    /\ UNCHANGED exceptTransfer

\* Step 6: the dispatches change an element of the buffer.
DeviceWrites ==
    /\ transfer_pc = "uploaded"
    /\ ~device_wrote
    /\ \E offset \in DOMAIN payload : \E value \in HostValues \ {payload[offset]} :
          payload' = [payload EXCEPT ![offset] = value]
    /\ device_wrote' = TRUE
    /\ UNCHANGED <<transfer_pc, matrix, vectors_as_columns, original, host_out_of_bounds>>
    /\ UNCHANGED exceptTransfer

\* A download that copies before the result of vkMapMemory is looked at.
MapThenCopy_CopyFirst(map_result, m, p, columns) == Downloaded(m, p, columns)
\* Step 7: VK_VALIDATE(vkMapMemory(...)) throws before the double loop when
\* the mapping failed; the loop runs only after a mapping that succeeded.
MapThenCopy(map_result, m, p, columns) ==
    IF IsFailure(map_result) THEN m ELSE Downloaded(m, p, columns)

\* Step 7: the buffer is mapped and copied back into the container.
Download ==
    /\ transfer_pc = "uploaded"
    /\ \E map_result \in CallResults :
          /\ matrix' = MapThenCopy(map_result, matrix, payload, vectors_as_columns)
          /\ IF IsFailure(map_result)
             THEN /\ transfer_pc' = "raised"
                  /\ UNCHANGED host_out_of_bounds
             ELSE /\ host_out_of_bounds' =
                         (host_out_of_bounds \/ DownloadLeavesContainer(matrix, vectors_as_columns))
                  /\ transfer_pc' \in
                         {"downloaded"} \cup
                         (IF DownloadLeavesContainer(matrix, vectors_as_columns)
                          THEN {"crashed"} ELSE {})
    /\ UNCHANGED <<vectors_as_columns, payload, original, device_wrote>>
    /\ UNCHANGED exceptTransfer

\* A validated call of steps 1 to 3 (before the upload) or of steps 5 and 6
\* (after it) fails: run throws; none of these steps touches the container.
TransferRaises ==
    /\ transfer_pc \in {"called", "uploaded"}
    /\ transfer_pc' = "raised"
    /\ UNCHANGED <<matrix, vectors_as_columns, payload, original, device_wrote,
                   host_out_of_bounds>>
    /\ UNCHANGED exceptTransfer

\* run is called with a container and either value of vectors_as_columns.
TransferInit ==
    /\ OneLiveSolver
    /\ RunIdle
    /\ KernelOff
    /\ BenchOff
    /\ AllocOff
    /\ transfer_pc = "called"
    /\ matrix \in Containers
    /\ vectors_as_columns \in BOOLEAN
    /\ payload = <<>>
    /\ original = matrix
    /\ device_wrote = FALSE
    /\ host_out_of_bounds = FALSE

TransferNext ==
    \/ Upload
    \/ DeviceWrites
    \/ Download
    \/ TransferRaises

TransferSpec == TransferInit /\ [][TransferNext]_vars

\* ------------------------------------------------------- benchmark

\* The array orders, of uint16_t, and its length orders_count.
orders == <<2, 5, 10, 50, 100, 500, 1000, 5000, 10000, 50000>>
orders_count == 10

\* The number of matrices generated for each order, and the default of the
\* parameter repetitions.
MatricesPerOrder == 50
repetitions == 10

\* The number of values of a uint8_t.
Uint8Values == 256

\* The conversion of an unsigned value to uint8_t.
ToUint8(x) == x % Uint8Values

\* benchmarking(): the test of the loop over orders.
BenchOrders ==
    /\ bench_pc = "orders"
    /\ matrix_i = 0
    /\ ~(order_i < orders_count)
    /\ bench_pc' = "done"
    /\ UNCHANGED <<order_i, matrix_i, repeat_i, bench_n, bench_matrix>>
    /\ UNCHANGED exceptBench

\* The call of average_time_for_one_random_matrix with orders[order_i] for
\* its uint8_t parameter n: the matrix of n rows of n entries is built and
\* filled.
BenchGenerate ==
    /\ bench_pc = "orders"
    /\ order_i < orders_count
    /\ matrix_i < MatricesPerOrder
    /\ bench_n' = ToUint8(orders[order_i + 1])
    /\ bench_matrix' = <<bench_n', bench_n'>>
    /\ repeat_i' = 0
    /\ bench_pc' = "repeat"
    /\ UNCHANGED <<order_i, matrix_i>>
    /\ UNCHANGED exceptBench

\* One repetition: vgs.run on a copy of the matrix, which returns or throws.
BenchRun ==
    /\ bench_pc = "repeat"
    /\ repeat_i < repetitions
    /\ \/ /\ repeat_i' = ToUint8(repeat_i + 1)
          /\ UNCHANGED bench_pc
       \/ /\ bench_pc' = "raised"
          /\ UNCHANGED repeat_i
    /\ UNCHANGED <<order_i, matrix_i, bench_n, bench_matrix>>
    /\ UNCHANGED exceptBench

\* average_time_for_one_random_matrix returns; ++matrix_i and, after the
\* last matrix of the order, ++order_i.
BenchReturn ==
    /\ bench_pc = "repeat"
    /\ ~(repeat_i < repetitions)
    /\ IF ToUint8(matrix_i + 1) < MatricesPerOrder
       THEN matrix_i' = ToUint8(matrix_i + 1) /\ UNCHANGED order_i
       ELSE matrix_i' = 0 /\ order_i' = ToUint8(order_i + 1)
    /\ bench_pc' = "orders"
    /\ UNCHANGED <<repeat_i, bench_n, bench_matrix>>
    /\ UNCHANGED exceptBench

\* benchmarking() has constructed vgs and enters the loop over orders.
BenchInit ==
    /\ OneLiveSolver
    /\ RunIdle
    /\ KernelOff
    /\ TransferOff
    /\ AllocOff
    /\ bench_pc = "orders"
    /\ order_i = 0
    /\ matrix_i = 0
    /\ repeat_i = 0
    /\ bench_n = 0
    /\ bench_matrix = <<0, 0>>

BenchNext ==
    \/ BenchOrders
    \/ BenchGenerate
    \/ BenchRun
    \/ BenchReturn

BenchSpec == BenchInit /\ [][BenchNext]_vars

\* ------------------------------------ the memory types (step 2 of run)

\* propertyFlags of a memory type: any combination of the bits up to the
\* host-coherent one (device-local, host-visible, host-coherent).
PropertyFlagValues == 0..(2 * VK_MEMORY_PROPERTY_HOST_COHERENT_BIT - 1)

\* The sizes of the heaps and of the buffer's requirement, in units of the
\* smaller of the two.
MemorySizes == {1, 2}

RECURSIVE Pow2(_)
Pow2(k) == IF k = 0 THEN 1 ELSE 2 * Pow2(k - 1)

\* vk_device_memory_properties.memoryTypeCount
MemoryTypeCount == Cardinality(DOMAIN memoryTypes)

\* The memory types a device can report, 1 to MaxMemoryTypes of them.
MemoryTypeTables ==
    UNION {[0..(count - 1) -> [propertyFlags : PropertyFlagValues,
                               heapIndex : 0..(NumMemoryHeaps - 1)]] :
           count \in 1..MaxMemoryTypes}

\* The test of the loop body that ends in continue.
Skipped(type_i) ==
    LET type == memoryTypes[type_i] IN
    \/ BitAnd(type.propertyFlags, VK_MEMORY_PROPERTY_HOST_VISIBLE_BIT) = 0
    \/ BitAnd(type.propertyFlags, VK_MEMORY_PROPERTY_HOST_COHERENT_BIT) = 0
    \/ BitAnd(type.propertyFlags, memory_reqs.memoryTypeBits) = 0
    \/ memoryHeaps[type.heapIndex] < memory_reqs.size

\* One iteration of the loop over the memory types: the type is skipped, or
\* vkAllocateMemory is called with it and succeeds or fails.
AllocScan ==
    /\ alloc_pc = "scan"
    /\ memory_type_i < MemoryTypeCount
    /\ IF Skipped(memory_type_i)
       THEN memory_scan' = [memory_scan EXCEPT !.memory_type_i = @ + 1]
       ELSE \E result \in CallResults :
               IF result = VK_SUCCESS
               THEN memory_scan' = [memory_scan EXCEPT !.memoryTypeIndex = memory_type_i,
                                                       !.pc = "allocated"]
               ELSE memory_scan' = [memory_scan EXCEPT !.memory_type_i = @ + 1]
    /\ UNCHANGED exceptAlloc

\* The loop has ended with allocation_success == false.
AllocThrow ==
    /\ alloc_pc = "scan"
    /\ ~(memory_type_i < MemoryTypeCount)
    /\ memory_scan' = [memory_scan EXCEPT !.pc = "raised"]
    /\ UNCHANGED exceptAlloc

\* run has created the buffer on a device with some memory types and heaps;
\* the buffer requires a size and accepts the types of memoryTypeBits, at
\* least one of the device's types.
AllocInit ==
    /\ OneLiveSolver
    /\ RunIdle
    /\ KernelOff
    /\ TransferOff
    /\ BenchOff
    /\ \E types \in MemoryTypeTables :
       \E heaps \in [0..(NumMemoryHeaps - 1) -> MemorySizes] :
       \E size \in MemorySizes :
       \E bits \in 1..(Pow2(Cardinality(DOMAIN types)) - 1) :
          memory_scan = [pc |-> "scan", memoryTypes |-> types, memoryHeaps |-> heaps,
                         memory_reqs |-> [size |-> size, memoryTypeBits |-> bits],
                         memory_type_i |-> 0, memoryTypeIndex |-> NoIndex]

AllocNext ==
    \/ AllocScan
    \/ AllocThrow

AllocSpec == AllocInit /\ [][AllocNext]_vars

\* ------------------------------------------------- constructor lock (C1)

\* The solvers between constructor.lock() and the release of the mutex.
InCriticalSection ==
    {i \in Solvers : pc[i] \in {"c_setup", "c_select", "c_claim", "c_build", "c_unlock"}}

\* C1: in every interleaving of concurrent constructions, failing ones
\* included, at most one construction is between taking and releasing the
\* constructor lock.
C1_OneConstructionInCriticalSection == Cardinality(InCriticalSection) <= 1

\* ----------------------------------------------- occupancy (C2, C3, C5)

\* The live objects that hold a queue of pair p.
LiveHolders(p) == {i \in Solvers : pc[i] = "live" /\ SelectedPair(i) = p}

\* C2: after N objects were constructed and destroyed one after the other,
\* starting from the empty map, the occupancy of every pair is zero.
C2_SequentialLifecycleLeavesRegistryEmpty ==
    (\A i \in Solvers : pc[i] \in {"none", "destroyed"}) =>
        \A p \in DOMAIN vk_busy_queues : vk_busy_queues[p] = 0

\* Every one of the NumSolvers objects was constructed and destroyed.
C2_AllConstructedAndDestroyed == \A i \in Solvers : pc[i] = "destroyed"

\* C3: when a construction fails after its claim was taken, the occupancy of
\* the selected pair is, when the error reaches the caller, what it was before
\* the construction (the value the claim's += loaded).
C3_FailedConstructionReleasesClaim ==
    \A i \in Solvers :
        (pc[i] = "raised" /\ vk_selected_gpu_i[i] # NoIndex) =>
            vk_busy_queues[SelectedPair(i)] = rmw[i]

\* No construction has failed so far.
NoFailedConstruction == \A i \in Solvers : pc[i] \notin {"v_catch", "raised", "failed"}

\* Nothing is in progress: every object is unborn, alive or destroyed.
AllQuiet == \A i \in Solvers : pc[i] \in {"none", "live", "destroyed"}

\* A solver between the load and the store of its += or -= on the map holds
\* the constructor lock.
UpdatesHoldLock == \A i \in Solvers : pc[i] \in {"c_claim", "d_store"} => constructor = i

\* No update is lost: each pair's occupancy is the number of live objects
\* that hold it.
OccupancyCountsLiveHolders ==
    \A p \in DOMAIN vk_busy_queues : vk_busy_queues[p] = Cardinality(LiveHolders(p))

\* C5: every access to vk_busy_queues, by a constructor or a destructor, is
\* made with the constructor lock held, so that no update is lost and each
\* pair's occupancy is the number of live objects holding it. Stated for the
\* runs in which no construction fails, where every object counted in the
\* map is constructed or destroyed in full.
C5_RegistryAccessedUnderLock ==
    /\ NoFailedConstruction => UpdatesHoldLock
    /\ AllQuiet => OccupancyCountsLiveHolders

\* ------------------------------------------------------- queues (C4)

\* Step 5: vk_queues[queue_i] is queue queue_i of the selected family, for
\* queue_i below vk_selected_queues_count.
VkQueues(count) == [queue_i \in 0..(count - 1) |-> queue_i]

\* The queue run submits to: vk_queues[0] of the selected device and family.
SubmitQueue(i) ==
    <<vk_selected_gpu_i[i], vk_selected_queue_family_i[i],
      VkQueues(vk_selected_queues_count[i])[0]>>

\* C4: two objects alive at the same time submit to different
\* (device, queue family, queue index) triples.
C4_LiveSolversOwnDistinctQueues ==
    \A i, j \in Solvers :
        (i # j /\ pc[i] = "live" /\ pc[j] = "live") => SubmitQueue(i) # SubmitQueue(j)

\* ------------------------------------------------------- errors (C6)

\* C6: when a validated call returned a status other than VK_SUCCESS, the
\* error that reaches the caller names the call and carries that status.
C6_ErrorCarriesOperationAndStatus ==
    \A i \in Solvers :
        (pc[i] = "raised" /\ vk_result[i] # VK_SUCCESS) =>
            /\ thrown[i].op \in SetupCalls \cup BuildCalls
            /\ thrown[i].codes = {vk_result[i]}

\* ---------------------------------------------------- selection (C7)

\* Some device with shaderFloat64 has a compute-capable queue family with
\* occupancy below its queue count.
CapableFamilyExists ==
    \E p \in DOMAIN vk_busy_queues :
        /\ gpus[p[1]].shaderFloat64
        /\ BitAnd(gpus[p[1]].families[p[2]].queueFlags, VK_QUEUE_COMPUTE_BIT) # 0
        /\ U32Less(vk_busy_queues[p], gpus[p[1]].families[p[2]].queueCount)

NoCapableDevice == PlainError("all available queues are occupied")

\* C7: selection raises NoCapableDevice exactly when no capable family with a
\* free queue exists; when one exists, a family is selected.
C7_NoCapableDeviceIffNoneEligible ==
    \A i \in Solvers :
        /\ (pc[i] = "raised" /\ thrown[i] = NoCapableDevice) => ~CapableFamilyExists
        /\ pc[i] = "c_claim" => CapableFamilyExists

\* ----------------------------------------------------- step loop (C8)

\* The pivot indices of the submissions made so far, in submission order.
SubmittedPivots == [k \in 1..Len(submitted) |-> submitted[k].constants[3]]

\* C8: a run that returns for a matrix of n vectors has performed exactly n
\* steps, and their pivot indices are 0, 1, ..., n - 1 in this order.
C8_CompletedRunStepsThroughAllPivots ==
    run_pc = "returned" => SubmittedPivots = [k \in 1..matrix_size |-> k - 1]

\* A run over at least two vectors has returned.
C8_RunOfSeveralStepsReturned ==
    /\ run_pc = "returned"
    /\ matrix_size >= 2
    /\ Len(submitted) = matrix_size

\* ------------------------------------------------- fence timeout (C9)

\* C9: when the wait on the fence of step k ran out, run has raised an error,
\* and no step with a pivot index above k is recorded or submitted.
C9_TimeoutStopsTheRun ==
    timed_out_at # NoIndex =>
        /\ run_pc = "raised"
        /\ run_thrown = ExceptionError("vkWaitForFences")
        /\ \A k \in 1..Len(submitted) : submitted[k].constants[3] <= timed_out_at
        /\ \A k \in 1..Len(vk_command_buffer) : vk_command_buffer[k].constants[3] <= timed_out_at
        /\ start_vec_i = timed_out_at

\* The wait of a step after the first ran out while later pivots remained.
C9_TimedOutMidRun ==
    /\ timed_out_at >= 1
    /\ timed_out_at + 1 < matrix_size
    /\ run_pc = "raised"

\* ------------------------------------------ barrier of the kernel (C10)

\* C10: no invocation runs the projection, which reads the pivot vector,
\* before every coordinate of the pivot vector is divided by the norm; this
\* covers dispatches of more than local_size_x remaining vectors.
C10_ProjectionReadsNormalisedPivot ==
    \A g \in DOMAIN projected : projected[g] > 0 => normalised = metadata[1]

\* ------------------------------------------ bounds of the kernel (C11)

\* The number of doubles of the matrix buffer, whose size in bytes is
\* matrix.size() * matrix.size() * 8.
BufferLength == metadata[2] * metadata[2]

\* Every invocation of the dispatch has reached barrier() and, where it
\* passes the test of the second phase, has run it.
KernelFinished ==
    /\ pivot_pc = "barrier"
    /\ \A g \in DOMAIN arrived :
          /\ BarrierOpen(g)
          /\ projected[g] = Cardinality(Projecting(g))

\* C11: whatever the dispatch, every element of matrix.data an invocation
\* reads or writes has an index in 0 .. n * n - 1; the invocations added by
\* rounding the group count up touch nothing.
C11_KernelStaysInsideBuffer ==
    touched # <<>> => (0 <= touched[1] /\ touched[2] <= BufferLength - 1)

\* A dispatch with invocations beyond the last vector has finished, the
\* last element of the buffer included.
C11_DispatchWithSurplusFinished ==
    /\ KernelFinished
    /\ num_work_groups * local_size_x > metadata[2] - metadata[3]
    /\ metadata[2] - metadata[3] > 1
    /\ touched = <<VECTOR_INDEX(metadata[3]), BufferLength - 1>>

\* ------------------------------------- orthonormal result (C17)

\* C17: the vectors left by run are the Gram-Schmidt basis of the input,
\* pairwise orthogonal and of unit norm. The subtraction of line 55 removes
\* the component along the pivot only when the pivot it reads has unit norm,
\* so in a finished dispatch every projection has read the divided pivot.
C17_ProjectionsAgainstUnitPivot == KernelFinished => ~unnormalised_read

\* ------------------------------------- containers that are not square (C12)

\* C12: whatever the lengths of the rows and the value of vectors_as_columns,
\* neither the upload nor the download indexes a row of the container at or
\* beyond its length.
C12_NoHostAccessOutOfBounds == ~host_out_of_bounds

\* ------------------------------------- download inverts upload (C13)

\* C13: after the download of a square matrix, the value at offset v * n + c
\* of the buffer is in the element the upload read for vector v and
\* coordinate c, for both orientations; when the device changed nothing the
\* container is what it was.
C13_DownloadInvertsUpload ==
    (transfer_pc = "downloaded" /\ IsSquare(original)) =>
        /\ \A vc \in LoopPairs(original) :
              LET cell == UploadCell(vc[1], vc[2], vectors_as_columns) IN
              matrix[cell[1]][cell[2]] = payload[Offset(original, vc[1], vc[2])]
        /\ ~device_wrote => matrix = original

\* A matrix that is not symmetric, passed with its vectors in columns, went
\* through upload and download.
C13_ColumnsRoundTrip ==
    /\ transfer_pc = "downloaded"
    /\ IsSquare(original)
    /\ Size(original) = 2
    /\ original[0][1] # original[1][0]
    /\ vectors_as_columns
    /\ ~device_wrote

\* ------------------------------------------ orientation symmetry (C14)

\* The transposed square matrix.
Transposed(m) == [r \in DOMAIN m |-> [c \in DOMAIN m |-> m[c][r]]]

\* C14: for a square matrix M, the buffer after the upload of M in one
\* orientation is the buffer after the upload of the transposed M in the
\* other orientation, and the transposed result of run on M is the result
\* of run on the transposed M in the other orientation for the same buffer.
C14_OrientationSymmetry ==
    IsSquare(original) =>
        /\ (transfer_pc = "uploaded" /\ ~device_wrote) =>
               UploadedPayloads(Transposed(original), ~vectors_as_columns) = {payload}
        /\ transfer_pc = "downloaded" =>
               Transposed(matrix) =
                   Downloaded(Transposed(original), payload, ~vectors_as_columns)

\* The device's result for a matrix that is not symmetric, passed with its
\* vectors in columns, was downloaded.
C14_ColumnsResultDownloaded ==
    /\ transfer_pc = "downloaded"
    /\ IsSquare(original)
    /\ Size(original) = 2
    /\ original[0][1] # original[1][0]
    /\ matrix[0][1] # matrix[1][0]
    /\ vectors_as_columns
    /\ device_wrote

\* ------------------------------------ transient resources of run (C15)

\* C15: when run has returned or raised, the matrix buffer and the device
\* memory this call created are no longer live.
C15_RunFreesBufferAndMemory ==
    run_pc \in {"returned", "raised"} =>
        /\ vk_matrix_buffer \in {"none", "destroyed"}
        /\ vk_matrix_memory \in {"none", "freed"}

\* ------------------------------------------ order of destruction (C16)

\* A handle, not the claim on the occupancy map.
IsHandle(h) == h # "claim"

\* The sequence s in the opposite order.
Reversed(s) == [k \in 1..Len(s) |-> s[Len(s) + 1 - k]]

\* C16: a destroyed object has released its handles in the exact reverse of
\* the order in which its constructor acquired them, and has released its
\* claim on the occupancy map after the last of them.
C16_ReverseOrderThenClaim ==
    \A i \in Solvers :
        pc[i] = "destroyed" =>
            /\ SelectSeq(released[i], IsHandle) = Reversed(SelectSeq(acquired[i], IsHandle))
            /\ \A k, m \in DOMAIN released[i] :
                  (released[i][k] = "claim" /\ IsHandle(released[i][m])) => m < k

\* ------------------------------------ matrices of the benchmark (C18)

\* C18: every matrix the benchmark generates and passes to the solver for the
\* listed dimension orders[order_i] has exactly that many rows and that many
\* columns.
C18_BenchmarkMatricesHaveListedOrder ==
    bench_pc = "repeat" => bench_matrix = <<orders[order_i + 1], orders[order_i + 1]>>

\* --------------------------------------- what is selected (C19, C20)

\* The properties of the queue family of pair p.
PropsOf(p) == gpus[p[1]].families[p[2]]

\* Family f of device g supports compute and has a queue that is not claimed.
Eligible(g, f) ==
    /\ BitAnd(gpus[g].families[f].queueFlags, VK_QUEUE_COMPUTE_BIT) # 0
    /\ U32Less(vk_busy_queues[<<g, f>>], gpus[g].families[f].queueCount)

\* Family f of device g does not support graphics.
WithoutGraphics(g, f) == BitAnd(gpus[g].families[f].queueFlags, VK_QUEUE_GRAPHICS_BIT) = 0

\* C19: when a construction has selected a pair, the device has
\* shaderFloat64, the family supports compute, and the occupancy of the family
\* read at the selection is below its queue count.
C19_SelectedPairIsCapable ==
    \A i \in Solvers :
        pc[i] = "c_claim" =>
            /\ gpus[vk_selected_gpu_i[i]].shaderFloat64
            /\ BitAnd(PropsOf(SelectedPair(i)).queueFlags, VK_QUEUE_COMPUTE_BIT) # 0
            /\ U32Less(rmw[i], PropsOf(SelectedPair(i)).queueCount)

\* C20: when the device of the selection has an eligible family without
\* graphics and an eligible family with graphics, in either order, the
\* selected family is an eligible one without graphics.
C20_ComputeOnlyFamilyPreferred ==
    \A i \in Solvers :
        pc[i] = "c_claim" =>
            LET g == vk_selected_gpu_i[i]
                fs == DOMAIN gpus[g].families
            IN  ((\E f \in fs : Eligible(g, f) /\ WithoutGraphics(g, f))
                    /\ (\E f \in fs : Eligible(g, f) /\ ~WithoutGraphics(g, f)))
                => (Eligible(g, vk_selected_queue_family_i[i])
                       /\ WithoutGraphics(g, vk_selected_queue_family_i[i]))


\* ------------------------------------------------------------------ C21

\* The store of the += of solver i is the step of this transition.
ClaimStep(i) == pc[i] = "c_claim" /\ pc'[i] = "c_build"

\* C21: a construction that selected a pair raises the occupancy of that pair
\* by exactly 1, whatever the queueCount of the family, and leaves the
\* occupancy of every other pair as it was.
C21_ConstructionClaimsOneQueue ==
    [][\A i \in Solvers :
          ClaimStep(i) =>
              vk_busy_queues' = [vk_busy_queues EXCEPT ![SelectedPair(i)] = @ + 1]]_vars

\* Two objects are alive on one family of queueCount 2, each with one claim.
C21_TwoClaimsOnOneFamily ==
    \E i, j \in Solvers :
        /\ i # j
        /\ pc[i] = "live"
        /\ pc[j] = "live"
        /\ SelectedPair(i) = SelectedPair(j)
        /\ gpus[vk_selected_gpu_i[i]].families[vk_selected_queue_family_i[i]].queueCount = 2
        /\ vk_busy_queues[SelectedPair(i)] = 2


\* ------------------------------------------------------------------ C26

\* The handles solver i acquired and has not released.
HandlesHeld(i) ==
    {acquired[i][k] : k \in {k \in DOMAIN acquired[i] : IsHandle(acquired[i][k])}}
        \ {released[i][k] : k \in DOMAIN released[i]}

\* C26: when the error of a failed construction reaches the caller, every
\* handle that construction acquired has been released.
C26_FailedConstructionReleasesHandles ==
    \A i \in Solvers : pc[i] = "raised" => HandlesHeld(i) = {}


\* ------------------------------------------------ steps of one run (C22)

\* C22: a step is recorded and submitted only when every earlier step of the
\* run was submitted and the device has finished it, and what is in flight is
\* the one submission made last.
C22_StepsDoNotOverlap ==
    /\ run_pc \in {"record", "submit"} =>
           /\ in_flight = <<>>
           /\ SubmittedPivots = [k \in 1..start_vec_i |-> k - 1]
    /\ in_flight # <<>> => in_flight = <<submitted[Len(submitted)]>>

\* The second step is about to be submitted, the first one being finished.
C22_SecondStepAfterFirstFinished ==
    /\ run_pc = "submit"
    /\ start_vec_i = 1
    /\ Len(submitted) = 1
    /\ in_flight = <<>>

\* --------------------------------------------- unchecked statuses (C27)

\* C27: no call of run writes through payload after the vkMapMemory that was
\* to set it has failed.
C27_NoWriteThroughUnmappedPointer == ~unmapped_write

\* -------------------------------------------------- order of a run (C30)

\* The loop of step 6 is at one of its calls.
InStepLoop == run_pc \in {"record", "submit", "wait", "reset"}

\* C30: a step is submitted only after step 4 has copied the matrix into the
\* buffer, every step works on the buffer this call created and bound, and
\* step 7 is reached only when all n steps were submitted and the device has
\* finished the last of them.
C30_UploadStepsDownloadInOrder ==
    /\ (InStepLoop \/ submitted # <<>>) =>
           /\ upload_done
           /\ descriptor_binding_0 = run_no
           /\ vk_matrix_buffer # "none"
    /\ InStepLoop => vk_matrix_buffer = "created"
    /\ run_pc \in {"map", "returned"} =>
           /\ SubmittedPivots = [k \in 1..matrix_size |-> k - 1]
           /\ in_flight = <<>>

\* Step 7 is reached after the steps of a matrix of at least three vectors.
C30_AllStepsDoneBeforeDownload ==
    /\ run_pc = "map"
    /\ matrix_size >= 3
    /\ upload_done
    /\ Len(submitted) = matrix_size

\* ------------------------------------------------ reuse of an object (C28)

\* C28: as long as no call of run on the object has raised, the fence is
\* unsignaled and nothing is in flight whenever the command buffer is about
\* to be submitted, and the fence is unsignaled when run has returned.
C28_FenceAndCommandBufferReadyAtSubmission ==
    ~some_run_raised =>
        /\ run_pc = "submit" => vk_fence = "unsignaled" /\ in_flight = <<>>
        /\ run_pc = "returned" => vk_fence = "unsignaled"

\* The second step of a later call is about to be submitted, all earlier
\* calls having returned.
C28_SubmissionInLaterCall ==
    /\ run_no >= 2
    /\ ~some_run_raised
    /\ run_pc = "submit"
    /\ start_vec_i = 1

\* ------------------------------------------- the descriptor set (C29)

\* C29: whenever a call of run is in its loop of steps, binding 0 of the
\* descriptor set names the buffer this call created, which is live and is
\* not a buffer an earlier call has destroyed.
C29_DispatchUsesBufferOfThisCall ==
    InStepLoop =>
        /\ descriptor_binding_0 = run_no
        /\ vk_matrix_buffer = "created"
        /\ descriptor_binding_0 \notin destroyed_buffers

\* A step is about to be submitted after the previous call has destroyed
\* its buffer.
C29_DispatchAfterEarlierBufferDestroyed ==
    /\ run_no >= 2
    /\ (run_no - 1) \in destroyed_buffers
    /\ run_pc = "submit"


\* ------------------------------------------- size of a dispatch (C23)

\* gl_GlobalInvocationID.x of all invocations of the dispatch.
AllInvocations == 0..(num_work_groups * local_size_x - 1)

\* C23: a step on n vectors with pivot p is dispatched as ceil((n - p) / 32)
\* work groups, at least one; each vector index v in p .. n - 1 is curr_vec_i
\* of exactly one invocation (invocation v - p has it, and an invocation's id
\* is its curr_vec_i less p), and fewer than 32 invocations have a curr_vec_i
\* beyond n - 1.
C23_DispatchCoversRemainingVectors ==
    LET n == metadata[2]
        p == metadata[3]
    IN  /\ num_work_groups >= 1
        /\ (num_work_groups - 1) * local_size_x < n - p
        /\ n - p <= num_work_groups * local_size_x
        /\ AllInvocations = UNION {InvocationsOf(g) : g \in DOMAIN arrived}
        /\ \A v \in p..(n - 1) : (v - p) \in AllInvocations /\ CurrVec(v - p) = v
        /\ \A gid \in AllInvocations : CurrVec(gid) - p = gid
        /\ Cardinality({gid \in AllInvocations : CurrVec(gid) > n - 1}) < local_size_x

\* In a dispatch of two work groups an invocation of the last group has run
\* the second phase.
C23_LastGroupProjected ==
    /\ num_work_groups = 2
    /\ projected[1] >= 1


\* --------------------------------------- layout of the buffer (C24)

\* Coordinate c of vector v of the square container m: column v when the
\* vectors are its columns, row v otherwise.
Coordinate(m, columns, v, c) == IF columns THEN m[c][v] ELSE m[v][c]

\* C24: after the upload of an n x n matrix the buffer element at offset
\* v * n + c is coordinate c of vector v, for all v and c in 0 .. n - 1; the
\* kernel reads vector v from offset v * dim on.
C24_BufferHoldsVectorsRowMajor ==
    (transfer_pc = "uploaded" /\ ~device_wrote /\ IsSquare(original)) =>
        LET n == Size(original) IN
        /\ DOMAIN payload = 0..(n * n - 1)
        /\ \A v \in 0..(n - 1) : \A c \in 0..(n - 1) :
              payload[v * n + c] = Coordinate(original, vectors_as_columns, v, c)

\* A 2 x 2 matrix that is not symmetric was uploaded in either orientation.
C24_AsymmetricMatrixUploaded ==
    /\ transfer_pc = "uploaded"
    /\ ~device_wrote
    /\ IsSquare(original)
    /\ Size(original) = 2
    /\ original[0][1] # original[1][0]
    /\ ~vectors_as_columns


\* ------------------------------------ the memory type used (C25)

\* C25: the memory type vk_matrix_memory is allocated from is host-visible
\* and host-coherent, lies in a heap at least as large as the size the buffer
\* requires, and has its bit set in the buffer's memoryTypeBits.
C25_AllocatedTypeIsSuitable ==
    alloc_pc = "allocated" =>
        LET type == memoryTypes[memoryTypeIndex] IN
        /\ BitAnd(type.propertyFlags, VK_MEMORY_PROPERTY_HOST_VISIBLE_BIT) # 0
        /\ BitAnd(type.propertyFlags, VK_MEMORY_PROPERTY_HOST_COHERENT_BIT) # 0
        /\ memoryHeaps[type.heapIndex] >= memory_reqs.size
        /\ BitAnd(memory_reqs.memoryTypeBits, Pow2(memoryTypeIndex)) # 0


\* ------------------------------------------------ termination of run (C31)

NoConstructionInProgress ==
    \A i \in Solvers :
        pc[i] \notin {"c_setup", "c_select", "c_claim", "c_build", "c_unlock", "v_catch"}

\* C32: whenever every construction attempt made so far has ended, by
\* returning or by raising any error, the constructor mutex is free, so the
\* next attempt can lock it.
C32_LockFreeAfterConstructionEnds == NoConstructionInProgress => constructor = 0


\* ------------------------------------------- bounds of the occupancy (C33)

\* C33: in every reachable state the occupancy of each (device, queue family)
\* pair is at least zero (the uint32_t never wrapped below zero) and at most
\* the queueCount of that family.
C33_OccupancyWithinQueueCount ==
    \A p \in Pairs(gpus) :
        /\ 0 <= vk_busy_queues[p]
        /\ vk_busy_queues[p] <= gpus[p[1]].families[p[2]].queueCount


\* ------------------------------- the container when run raises (C34)

\* C34: when run has raised, at whichever step, the container passed in holds
\* exactly the elements it held at the call.
C34_RaiseLeavesMatrixUntouched == transfer_pc = "raised" => matrix = original

\* run raised after the device had changed the buffer in a way a download
\* would have shown in the container.
C34_RaisedWithChangedBuffer ==
    /\ transfer_pc = "raised"
    /\ device_wrote
    /\ Downloaded(original, payload, vectors_as_columns) # original


\* ------------------------------------- the vectors one step writes (C35)

\* The invocations of work group g that have run the second phase, which
\* NextProjecting takes in the order of their ids.
HaveProjected(g) ==
    IF projected[g] = 0 THEN {}
    ELSE {gid \in Projecting(g) :
              Cardinality({other \in Projecting(g) : other < gid}) < projected[g]}

\* The invocations that have written to the buffer: invocation 0 from its
\* first division on (line 44), the others in their second phase (line 55).
Writers ==
    (IF normalised > 0 THEN {0} ELSE {}) \cup UNION {HaveProjected(g) : g \in DOMAIN projected}

\* C35: in the step with pivot p = start_vec_i every written vector has an
\* index in p .. n - 1, so the vectors below p are left as they were; vector
\* p is written by invocation 0 alone, which normalises it; no vector is
\* written by two invocations, and when the dispatch has finished every
\* vector of p .. n - 1 was written by exactly one.
C35_StepWritesOnlyFromPivotOn ==
    LET p == metadata[3]
        written == {CurrVec(gid) : gid \in Writers}
    IN  /\ written \subseteq p..(metadata[2] - 1)
        /\ Cardinality(written) = Cardinality(Writers)
        /\ normalised > 0 => CurrVec(0) = p
        /\ KernelFinished => written = p..(metadata[2] - 1)

\* A dispatch with a pivot above 0 and several vectors after it has finished.
C35_LaterStepFinished ==
    /\ KernelFinished
    /\ metadata[3] > 0
    /\ metadata[2] - metadata[3] > 2
    /\ Cardinality(Writers) = metadata[2] - metadata[3]


\* ------------------------------------- push constants of a step (C36)

\* C36: in every step of run on an n x n matrix the block recorded for the
\* dispatch, read in the kernel's order (dim, vector_count, start_vec_i), is
\* (n, n, the index of the step); it is pushed as 12 bytes at offset 0.
C36_PushConstantsOfEachStep ==
    /\ PushConstantsOffset = 0 /\ PushConstantsSize = 12
    /\ run_pc = "submit" =>
           vk_command_buffer[1].constants = <<matrix_size, matrix_size, start_vec_i>>
    /\ \A k \in DOMAIN submitted :
           submitted[k].constants = <<matrix_size, matrix_size, k - 1>>

\* The third step of a run was recorded with pivot index 2.
C36_ThirdStepRecorded ==
    /\ run_pc = "submit"
    /\ start_vec_i = 2
    /\ Len(submitted) = 2
    /\ vk_command_buffer[1].constants[3] = 2

====
